---- MODULE Spec2Model ----
(***************************************************************************)
(* A model of planemo/galaxy_config.py: the galaxy_config context manager  *)
(* (one configuration session) and the helpers it calls.                   *)
(*                                                                         *)
(* Strings are sequences of tokens.  A token is "$", "{", "}", a word made *)
(* only of identifier characters ([_a-zA-Z0-9]), or a run of text that     *)
(* starts with a character that is none of these.  string.Template only    *)
(* inspects what follows a "$", so this is the granularity at which        *)
(* safe_substitute can tell two strings apart.                             *)
(***************************************************************************)
EXTENDS Naturals, Sequences, FiniteSets, TLC

\* Python's None.  No string of the model contains this token.
None == <<"<None>">>

\* The empty string ''.
Empty == <<>>

\* Python's True, as an option value.
True == <<"True">>

\* `if v:` for a value that is None or a string.
Truthy(v) == v # None /\ v # Empty

\* d[k] = v on a dict.
Put(d, k, v) == [x \in DOMAIN d \cup {k} |-> IF x = k THEN v ELSE d[x]]

\* os.path.join(directory, name): every name token carries its separator.
Join(directory, name) == directory \o <<name>>

\* os.path.dirname of a normalised absolute path; the root is its own parent.
dirname(path) ==
    IF Len(path) <= 1 THEN <<"/">> ELSE SubSeq(path, 1, Len(path) - 1)

----------------------------------------------------------------------------
(* string.Template.safe_substitute, as used by __sub                       *)

Dollar == "$"
LBrace == "{"
RBrace == "}"

\* Tokens that are words starting with a letter or underscore.
IdStartToks ==
    { "a", "b", "port", "host", "temp_directory", "database_location",
      "tool_definition", "tool_conf", "debug", "master_api_key", "id_secret",
      "log_level", "files", "true", "test_key", "test_secret", "DEBUG",
      "config_directory", "False", "True", "file", "never",
      "job_working_directory", "sqlite", "sqlalchemy" }

\* Tokens that are words of identifier characters starting with a digit.
DigitToks == { "9090", "8080", "127", "1" }

IsIdStart(c) == c \in IdStartToks
IsIdChar(c) == c \in IdStartToks \cup DigitToks

\* [_a-z][_a-z0-9]* is greedy: the index of the last token of the identifier
\* that starts at i.
RECURSIVE IdRunEnd(_, _)
IdRunEnd(t, i) ==
    IF i + 1 <= Len(t) /\ IsIdChar(t[i + 1]) THEN IdRunEnd(t, i + 1) ELSE i

\* safe_substitute's convert() for a named or braced match: the mapped value,
\* or the matched text itself when the key is absent.
ConvertStrict(args, key, matched) ==
    IF key \in DOMAIN args THEN args[key] ELSE <<"<KeyError>">>

Convert(args, key, matched) ==
    IF key \in DOMAIN args THEN args[key] ELSE matched

\* pattern.sub(convert, template): left to right over the non-overlapping
\* matches of  \$(?:(escaped \$)|(named id)|{(braced id)}|(invalid)).
RECURSIVE Scan(_, _, _)
Scan(t, i, args) ==
    IF i > Len(t) THEN <<>>
    ELSE IF t[i] # Dollar THEN <<t[i]>> \o Scan(t, i + 1, args)
    ELSE IF i + 1 <= Len(t) /\ t[i + 1] = Dollar
        THEN <<Dollar>> \o Scan(t, i + 2, args)
    ELSE IF i + 1 <= Len(t) /\ IsIdStart(t[i + 1])
        THEN LET j == IdRunEnd(t, i + 1)
             IN  Convert(args, SubSeq(t, i + 1, j), SubSeq(t, i, j))
                     \o Scan(t, j + 1, args)
    ELSE IF /\ i + 2 <= Len(t)
            /\ t[i + 1] = LBrace
            /\ IsIdStart(t[i + 2])
            /\ LET j == IdRunEnd(t, i + 2)
               IN  j + 1 <= Len(t) /\ t[j + 1] = RBrace
        THEN LET j == IdRunEnd(t, i + 2)
             IN  Convert(args, SubSeq(t, i + 2, j), SubSeq(t, i, j + 1))
                     \o Scan(t, j + 2, args)
    ELSE <<Dollar>> \o Scan(t, i + 1, args)

safe_substitute(template, args) == Scan(template, 1, args)

__sub(template, args) ==
    IF template = None THEN Empty ELSE safe_substitute(template, args)

----------------------------------------------------------------------------
(* Bounds                                                                  *)

\* How many inputs (keyword options, for_tests, the global default root) the
\* caller supplies at once.
MaxOptions == 2

\* How many directories lie between the working directory and "/".
MaxDepth == 2

\* The longest template of the substitution specification.
MaxTplLen == 4

----------------------------------------------------------------------------
(* Inputs                                                                  *)

\* The inputs of one call: the keyword options the code reads, plus
\* database_connection (a key the code never reads), for_tests and
\* ctx.global_config["galaxy_root"].
InputNames ==
    { "install_galaxy", "galaxy_root", "config_directory", "test_data",
      "tool_data_table", "port", "brew_dependency_resolution",
      "shed_brew_dependency_resolution", "dependency_resolvers_config_file",
      "job_config_file", "job_metrics_config_file", "tool_dependency_dir",
      "database_connection", "for_tests", "global_galaxy_root" }

\* The values an input takes when it is supplied.
InputValues ==
    [ install_galaxy |-> <<True>>,
      galaxy_root |-> << <<"/gx">> >>,
      config_directory |-> << <<"/cfg">>, <<"/c", "$", "{", "host", "}">> >>,
      test_data |-> << <<"/td">> >>,
      tool_data_table |-> << <<"/tdt.xml">> >>,
      port |-> << <<"8080">> >>,
      brew_dependency_resolution |-> <<True>>,
      shed_brew_dependency_resolution |-> <<True>>,
      dependency_resolvers_config_file |-> << <<"/u", "/resolvers.xml">> >>,
      job_config_file |-> << <<"/u", "/job_conf.xml">> >>,
      job_metrics_config_file |-> << <<"/u", "/metrics.xml">> >>,
      tool_dependency_dir |->
          << <<"/u", "/deps">>, <<"$", "{", "temp_directory", "}", "/deps">> >>,
      database_connection |-> << <<"postgres", "://db">> >>,
      for_tests |-> <<True>>,
      global_galaxy_root |-> << <<"/ggx">> >> ]

\* The call in which the inputs of S are supplied, the k-th value each.
Call(S, pick) ==
    [k \in InputNames |-> IF k \in S THEN InputValues[k][pick[k]] ELSE None]

Calls ==
    UNION { { Call(S, pick) :
                pick \in { w \in [S -> {1, 2}] :
                             \A k \in S : w[k] <= Len(InputValues[k]) } } :
            S \in { T \in SUBSET InputNames : Cardinality(T) <= MaxOptions } }

\* What lies around the tool: whether tool_path is a directory, and which
\* paths exist.
ToolPath == <<"/tools", "/mytool">>

Layouts ==
    { [tool_is_dir |-> FALSE, exists |-> {}],
      [tool_is_dir |-> TRUE,
       exists |-> { <<"/tools", "/mytool", "/test-data">>,
                    <<"/tools", "/mytool", "/test-data",
                      "/tool_data_table_conf.xml.test">> }],
      [tool_is_dir |-> FALSE,
       exists |-> { <<"/tools", "/test-data">>,
                    <<".", "/tool_data_table_conf.xml.test">> }] }

\* The working directory, d directories below "/".
CwdAt(d) == IF d = 0 THEN <<"/">> ELSE [i \in 1..d |-> "/d"]

----------------------------------------------------------------------------
(* Module constants of galaxy_config.py                                    *)

WEB_SERVER_CONFIG_TEMPLATE ==
    << "\n[server:main]\nuse = egg:Paste#http\nport = ", "$", "{", "port", "}",
       "\nhost = ", "$", "{", "host", "}",
       "\nuse_threadpool = True\n[app:main]\n" >>

TOOL_CONF_TEMPLATE ==
    << "<toolbox><section id=\"testing\">", "$", "{", "tool_definition", "}",
       "</section></toolbox>" >>

EMPTY_JOB_METRICS_TEMPLATE == << "<?xml version=\"1.0\"?><job_metrics></job_metrics>" >>

BREW_DEPENDENCY_RESOLUTION_CONF ==
    << "<dependency_resolvers><homebrew /></dependency_resolvers>" >>

SHED_BREW_DEPENDENCY_RESOLUTION_CONF ==
    << "<dependency_resolvers><tool_shed_tap /></dependency_resolvers>" >>

STOCK_DEPENDENCY_RESOLUTION_STRATEGIES ==
    [ brew_dependency_resolution |-> BREW_DEPENDENCY_RESOLUTION_CONF,
      shed_brew_dependency_resolution |-> SHED_BREW_DEPENDENCY_RESOLUTION_CONF ]

EMPTY_TOOL_CONF_TEMPLATE == << "<toolbox></toolbox>" >>

DATABASE_TEMPLATE_URL ==
    << "https", "://github.com/jmchilton/galaxy-downloads/raw/master/",
       "db_gx_rev_0120", ".sqlite" >>

FAILED_TO_FIND_GALAXY_EXCEPTION == "Failed to find Galaxy root directory"

\* What mkdtemp() returns.
TempDirectory == <<"/tmp", "/tmpXXXXXX">>

----------------------------------------------------------------------------
(* State                                                                   *)

VARIABLES
    pc,                        \* where the session is
    call,                      \* the caller's arguments
    kwds,                      \* galaxy_config's keyword dict (helpers write it)
    layout,                    \* the files around the tool
    cwd,                       \* os.getcwd(), None until it is read
    test_data_dir,
    tool_data_table,
    galaxy_root,
    par_dir,                   \* __find_galaxy_root's walk position
    probe,                     \* what the walk saw in par_dir
    config_directory,
    created_config_directory,
    dir_made,                  \* mkdtemp() returned a directory
    dir_removed,               \* shutil.rmtree(config_directory) ran
    installed,                 \* the install command pipeline ran
    written,                   \* every file written so far, with its content
    preseeded_database,
    properties,
    env,
    yielded,                   \* the generator has reached its yield
    handle,                    \* the GalaxyConfig handed to the caller
    error,                     \* the exception leaving the session
    template, args, result, result2, sub_pc   \* the substitution checks

vars ==
    << pc, call, kwds, layout, cwd, test_data_dir, tool_data_table,
       galaxy_root, par_dir, probe, config_directory,
       created_config_directory, dir_made, dir_removed, installed, written,
       preseeded_database, properties, env, yielded, handle, error,
       template, args, result, result2, sub_pc >>

sessionVars ==
    << pc, call, kwds, layout, cwd, test_data_dir, tool_data_table,
       galaxy_root, par_dir, probe, config_directory,
       created_config_directory, dir_made, dir_removed, installed, written,
       preseeded_database, properties, env, yielded, handle, error >>

subVars == << template, args, result, result2, sub_pc >>

for_tests == call["for_tests"] = True

\* ctx.global_config.get("galaxy_root", None)
global_galaxy_root == call["global_galaxy_root"]

KwdNames == InputNames \ {"for_tests", "global_galaxy_root"}

\* kwds.get(key, default); None stands for an absent key.
Get(d, key, default) ==
    IF key \in DOMAIN d /\ d[key] # None THEN d[key] ELSE default

\* def config_join(*args): the closure reads config_directory when called.
config_join(name) == Join(config_directory, name)

GalaxyConfig(root, directory, environment, test_data) ==
    [ galaxy_root |-> root, config_directory |-> directory,
      env |-> environment, test_data_dir |-> test_data ]

NoHandle == GalaxyConfig(None, None, <<>>, None)

\* The walk is not running.
NoProbe == [dir |-> None, run |-> FALSE, config |-> FALSE]

Init ==
    /\ pc = "start"
    /\ call \in Calls
    /\ kwds = [k \in KwdNames |-> call[k]]
    /\ layout \in Layouts
    /\ cwd = None
    /\ test_data_dir = None
    /\ tool_data_table = None
    /\ galaxy_root = None
    /\ par_dir = None
    /\ probe = NoProbe
    /\ config_directory = None
    /\ created_config_directory = FALSE
    /\ dir_made = FALSE
    /\ dir_removed = FALSE
    /\ installed = FALSE
    /\ written = {}
    /\ preseeded_database = FALSE
    /\ properties = <<>>
    /\ env = <<>>
    /\ yielded = FALSE
    /\ handle = NoHandle
    /\ error = "none"
    /\ template = None
    /\ args = <<>>
    /\ result = None
    /\ result2 = None
    /\ sub_pc = "idle"

----------------------------------------------------------------------------
(* Discovery: __find_test_data, __find_tool_data_table,                    *)
(* __search_tool_path_for                                                  *)

IsRelative(path) == path # None /\ path # Empty /\ path[1] = "."

\* os.path.abspath of a normalised path, in working directory dir.
abspath(path, dir) ==
    IF IsRelative(path)
    THEN IF dir = <<"/">> THEN Tail(path) ELSE dir \o Tail(path)
    ELSE path

\* The first existing possible_path, before abspath; None when there is none.
__search_tool_path_for(path, target, extra_paths) ==
    LET tool_dir == IF ~layout.tool_is_dir THEN dirname(path) ELSE path
        possible_dirs == <<tool_dir, <<".">>>> \o extra_paths
        hits == { i \in 1..Len(possible_dirs) :
                    Join(possible_dirs[i], target) \in layout.exists }
    IN  IF hits = {} THEN None
        ELSE Join(possible_dirs[CHOOSE i \in hits : \A j \in hits : i <= j],
                  target)

__find_test_data(path, dir) ==
    IF Truthy(kwds["test_data"]) THEN abspath(kwds["test_data"], dir)
    ELSE abspath(__search_tool_path_for(path, "/test-data", <<>>), dir)

__find_tool_data_table(path, test_data, dir) ==
    IF Truthy(kwds["tool_data_table"])
    THEN abspath(kwds["tool_data_table"], dir)
    ELSE abspath(__search_tool_path_for(
                     path, "/tool_data_table_conf.xml.test",
                     IF Truthy(test_data) THEN <<test_data>> ELSE <<>>), dir)

\* Whether discovery calls abspath on a relative path, and so reads the
\* working directory.
DiscoveryReadsCwd ==
    \/ IsRelative(__find_test_data(ToolPath, <<".">>))
    \/ IsRelative(__find_tool_data_table(
                      ToolPath, __find_test_data(ToolPath, <<".">>), <<".">>))

\* Lines 86-91.
FindTestData ==
    /\ pc = "start"
    /\ \E d \in 0..MaxDepth :
         LET dir == CwdAt(d)
             found == __find_test_data(ToolPath, dir)
         IN  /\ cwd' = IF DiscoveryReadsCwd THEN dir ELSE None
             /\ test_data_dir' = found
             /\ tool_data_table' = __find_tool_data_table(ToolPath, found, dir)
    /\ pc' = "find_root"
    /\ UNCHANGED << call, kwds, layout, galaxy_root, par_dir, probe,
                    config_directory, created_config_directory, dir_made,
                    dir_removed, installed, written, preseeded_database,
                    properties, env, yielded, handle, error, subVars >>

----------------------------------------------------------------------------
(* __find_galaxy_root                                                      *)

\* os.path.isfile(run) and os.path.isdir(config)
IsGalaxyRootHalf(run, config) == run

IsGalaxyRoot(run, config) == run /\ config

\* The walk goes on while the parent differs from the directory itself.
WalkEnds(new_par_dir, dir) == new_par_dir = dir

\* Lines 92-95 and 198-205: the options that settle the root, else the walk
\* starts at os.getcwd().
FindGalaxyRoot ==
    /\ pc = "find_root"
    /\ IF Truthy(kwds["install_galaxy"])
       THEN /\ galaxy_root' = None
            /\ pc' = "mkdir"
            /\ UNCHANGED << cwd, par_dir >>
       ELSE IF Truthy(kwds["galaxy_root"])
       THEN /\ galaxy_root' = kwds["galaxy_root"]
            /\ pc' = "mkdir"
            /\ UNCHANGED << cwd, par_dir >>
       ELSE IF Truthy(global_galaxy_root)
       THEN /\ galaxy_root' = global_galaxy_root
            /\ pc' = "mkdir"
            /\ UNCHANGED << cwd, par_dir >>
       ELSE /\ \E d \in 0..MaxDepth :
                 cwd' = IF cwd = None THEN CwdAt(d) ELSE cwd
            /\ par_dir' = cwd'
            /\ pc' = "walk"
            /\ UNCHANGED galaxy_root
    /\ UNCHANGED << call, kwds, layout, test_data_dir, tool_data_table, probe,
                    config_directory, created_config_directory, dir_made,
                    dir_removed, installed, written, preseeded_database,
                    properties, env, yielded, handle, error, subVars >>

\* Lines 207-209: os.path.isfile(run) and os.path.isdir(config) for par_dir.
WalkProbe ==
    /\ pc = "walk"
    /\ \E run \in BOOLEAN, config \in BOOLEAN :
         probe' = [dir |-> par_dir, run |-> run, config |-> config]
    /\ pc' = "walk_test"
    /\ UNCHANGED << call, kwds, layout, cwd, test_data_dir, tool_data_table,
                    galaxy_root, par_dir, config_directory,
                    created_config_directory, dir_made, dir_removed, installed,
                    written, preseeded_database, properties, env, yielded,
                    handle, error, subVars >>

\* Lines 209-215: return par_dir, move to the parent, or give up at the top.
\* The walk's locals end with the call.
WalkTest ==
    /\ pc = "walk_test"
    /\ LET new_par_dir == dirname(par_dir)
       IN  IF IsGalaxyRoot(probe.run, probe.config)
           THEN /\ galaxy_root' = par_dir
                /\ pc' = "mkdir"
                /\ par_dir' = None
                /\ probe' = NoProbe
                /\ error' = error
           ELSE IF WalkEnds(new_par_dir, par_dir)
           THEN /\ error' = FAILED_TO_FIND_GALAXY_EXCEPTION
                /\ pc' = "released"
                /\ par_dir' = None
                /\ probe' = NoProbe
                /\ galaxy_root' = galaxy_root
           ELSE /\ par_dir' = new_par_dir
                /\ pc' = "walk"
                /\ UNCHANGED << galaxy_root, probe, error >>
    /\ UNCHANGED << call, kwds, layout, cwd, test_data_dir, tool_data_table,
                    config_directory, created_config_directory, dir_made,
                    dir_removed, installed, written, preseeded_database,
                    properties, env, yielded, handle, subVars >>

----------------------------------------------------------------------------
(* The config directory, the install, the resolvers, the job metrics       *)

\* An exception raised inside the try block runs the finally clause.
RaiseSwallowed(kind) == error' = kind /\ pc' = "yield"

Raise(kind) == error' = kind /\ pc' = "finally"

Write(file, content) == written' = written \cup {[file |-> file, content |-> content]}

\* Lines 97-105, mkdtemp() returning.
MakeConfigDirectory ==
    /\ pc = "mkdir"
    /\ IF ~Truthy(kwds["config_directory"])
       THEN /\ created_config_directory' = TRUE
            /\ config_directory' = TempDirectory
            /\ dir_made' = TRUE
       ELSE /\ config_directory' = kwds["config_directory"]
            /\ UNCHANGED << created_config_directory, dir_made >>
    /\ pc' = "install"
    /\ UNCHANGED << call, kwds, layout, cwd, test_data_dir, tool_data_table,
                    galaxy_root, par_dir, probe, dir_removed, installed,
                    written, preseeded_database, properties, env, yielded,
                    handle, error, subVars >>

\* Lines 102-105, mkdtemp() raising: the flag is set, no directory exists and
\* the try block is not entered.
MakeConfigDirectoryFails ==
    /\ pc = "mkdir"
    /\ ~Truthy(kwds["config_directory"])
    /\ created_config_directory' = TRUE
    /\ error' = "OSError"
    /\ pc' = "released"
    /\ UNCHANGED << call, kwds, layout, cwd, test_data_dir, tool_data_table,
                    galaxy_root, par_dir, probe, config_directory, dir_made,
                    dir_removed, installed, written, preseeded_database,
                    properties, env, yielded, handle, subVars >>

\* Lines 107-108 and 264-278, the command pipeline returning.
InstallGalaxyIfNeeded ==
    /\ pc = "install"
    /\ IF Truthy(kwds["install_galaxy"])
       THEN /\ installed' = TRUE
            /\ Write(config_join("/galaxy-central-master"),
                     <<"galaxy distribution">>)
            /\ galaxy_root' = config_join("/galaxy-central-master")
       ELSE UNCHANGED << installed, written, galaxy_root >>
    /\ pc' = "resolve"
    /\ UNCHANGED << call, kwds, layout, cwd, test_data_dir, tool_data_table,
                    par_dir, probe, config_directory,
                    created_config_directory, dir_made, dir_removed,
                    preseeded_database, properties, env, yielded, handle,
                    error, subVars >>

\* Line 276, commands.shell raising.
InstallGalaxyFails ==
    /\ pc = "install"
    /\ Truthy(kwds["install_galaxy"])
    /\ installed' = TRUE
    /\ Raise("InstallError")
    /\ UNCHANGED << call, kwds, layout, cwd, test_data_dir, tool_data_table,
                    galaxy_root, par_dir, probe, config_directory,
                    created_config_directory, dir_made, dir_removed, written,
                    preseeded_database, properties, env, yielded, handle,
                    subVars >>

resolutions_strategies ==
    << "brew_dependency_resolution", "dependency_resolvers_config_file",
       "shed_brew_dependency_resolution" >>

selected_strategies ==
    Cardinality({ i \in 1..Len(resolutions_strategies) :
                    Truthy(kwds[resolutions_strategies[i]]) })

\* The stock strategies the loop of lines 325-335 acts on.
StockSelected ==
    { key \in DOMAIN STOCK_DEPENDENCY_RESOLUTION_STRATEGIES : Truthy(kwds[key]) }

resolvers_conf == Join(config_directory, "/resolvers_conf.xml")

\* Line 333: the literal "config_directory", not the variable.
dependency_dir == <<"config_directory", "/deps">>

\* Lines 321-323.
HandleDependencyResolutionRejects ==
    /\ pc = "resolve"
    /\ selected_strategies > 1
    /\ Raise("UsageError")
    /\ UNCHANGED << call, kwds, layout, cwd, test_data_dir, tool_data_table,
                    galaxy_root, par_dir, probe, config_directory,
                    created_config_directory, dir_made, dir_removed, installed,
                    written, preseeded_database, properties, env, yielded,
                    handle, subVars >>

\* Lines 325-335.
HandleDependencyResolution ==
    /\ pc = "resolve"
    /\ ~(selected_strategies > 1)
    /\ IF StockSelected # {}
       THEN /\ written' = written \cup
                  { [file |-> resolvers_conf,
                     content |-> STOCK_DEPENDENCY_RESOLUTION_STRATEGIES[key]] :
                    key \in StockSelected }
            /\ kwds' = Put(Put(kwds, "tool_dependency_dir", dependency_dir),
                           "dependency_resolvers_config_file", resolvers_conf)
       ELSE UNCHANGED << written, kwds >>
    /\ pc' = "job_metrics"
    /\ UNCHANGED << call, layout, cwd, test_data_dir, tool_data_table,
                    galaxy_root, par_dir, probe, config_directory,
                    created_config_directory, dir_made, dir_removed, installed,
                    preseeded_database, properties, env, yielded, handle,
                    error, subVars >>

\* Line 332, open() or write() raising.
HandleDependencyResolutionFails ==
    /\ pc = "resolve"
    /\ ~(selected_strategies > 1)
    /\ StockSelected # {}
    /\ Raise("IOError")
    /\ UNCHANGED << call, kwds, layout, cwd, test_data_dir, tool_data_table,
                    galaxy_root, par_dir, probe, config_directory,
                    created_config_directory, dir_made, dir_removed, installed,
                    written, preseeded_database, properties, env, yielded,
                    handle, subVars >>

metrics_conf == Join(config_directory, "/job_metrics_conf.xml")

\* Lines 338-341.
HandleJobMetrics ==
    /\ pc = "job_metrics"
    /\ Write(metrics_conf, EMPTY_JOB_METRICS_TEMPLATE)
    /\ kwds' = Put(kwds, "job_metrics_config_file", metrics_conf)
    /\ pc' = "fetch"
    /\ UNCHANGED << call, layout, cwd, test_data_dir, tool_data_table,
                    galaxy_root, par_dir, probe, config_directory,
                    created_config_directory, dir_made, dir_removed, installed,
                    preseeded_database, properties, env, yielded, handle,
                    error, subVars >>

\* Line 340, open() or write() raising.
HandleJobMetricsFails ==
    /\ pc = "job_metrics"
    /\ Raise("IOError")
    /\ UNCHANGED << call, kwds, layout, cwd, test_data_dir, tool_data_table,
                    galaxy_root, par_dir, probe, config_directory,
                    created_config_directory, dir_made, dir_removed, installed,
                    written, preseeded_database, properties, env, yielded,
                    handle, subVars >>

\* Lines 115-120: urlretrieve returns, or raises and is caught.
FetchDatabase ==
    /\ pc = "fetch"
    /\ \/ /\ preseeded_database' = TRUE
          /\ Write(config_join("/galaxy.sqlite"), DATABASE_TEMPLATE_URL)
       \/ /\ preseeded_database' = FALSE
          /\ UNCHANGED written
    /\ pc' = "build"
    /\ UNCHANGED << call, kwds, layout, cwd, test_data_dir, tool_data_table,
                    galaxy_root, par_dir, probe, config_directory,
                    created_config_directory, dir_made, dir_removed, installed,
                    properties, env, yielded, handle, error, subVars >>

----------------------------------------------------------------------------
(* Properties and environment                                              *)

\* Lines 112 and 256-261, then `tool_definition % tool_path` of line 127.
__tool_conf_entry_for(tool_path) ==
    IF layout.tool_is_dir
    THEN <<"<tool_dir dir=\"">> \o tool_path \o <<"\" />">>
    ELSE <<"<tool file=\"">> \o tool_path \o <<"\" />">>

tool_conf == config_join("/tool_conf.xml")
empty_tool_conf == config_join("/empty_tool_conf.xml")
database_location == config_join("/galaxy.sqlite")

\* Lines 122-133.
template_args ==
    (<<"port">> :> Get(kwds, "port", <<"9090">>))
    @@ (<<"host">> :> <<"127", ".0.0.", "1">>)
    @@ (<<"temp_directory">> :> config_directory)
    @@ (<<"database_location">> :> database_location)
    @@ (<<"tool_definition">> :> __tool_conf_entry_for(ToolPath))
    @@ (<<"tool_conf">> :> tool_conf)
    @@ (<<"debug">> :> Get(kwds, "debug", <<"true">>))
    @@ (<<"master_api_key">> :> Get(kwds, "master_api_key", <<"test_key">>))
    @@ (<<"id_secret">> :> Get(kwds, "id_secret", <<"test_secret">>))
    @@ (<<"log_level">> :> Get(kwds, "log_level", <<"DEBUG">>))

TempDir(rest) == <<"$", "{", "temp_directory", "}">> \o rest

\* Lines 134-160.
BaseProperties ==
    [ file_path |-> TempDir(<<"files">>),
      new_file_path |-> TempDir(<<"/tmp">>),
      tool_config_file |-> tool_conf,
      check_migrate_tools |-> <<"False">>,
      manage_dependency_relationships |-> <<"False">>,
      job_working_directory |-> TempDir(<<"/job_working_directory">>),
      template_cache_path |-> TempDir(<<"/compiled_templates">>),
      citation_cache_type |-> <<"file">>,
      citation_cache_data_dir |-> TempDir(<<"/citations/data">>),
      citation_cache_lock_dir |-> TempDir(<<"/citations/lock">>),
      collect_outputs_from |-> <<"job_working_directory">>,
      database_auto_migrate |-> <<"True">>,
      cleanup_job |-> <<"never">>,
      master_api_key |-> <<"$", "{", "master_api_key", "}">>,
      id_secret |-> <<"$", "{", "id_secret", "}">>,
      log_level |-> <<"$", "{", "log_level", "}">>,
      debug |-> <<"$", "{", "debug", "}">>,
      tool_data_table_config_path |-> tool_data_table,
      integrated_tool_panel_config |->
          TempDir(<<"/", "integrated_tool_panel_conf", ".xml">>),
      amqp_internal_connection |-> <<"sqlalchemy", "+", "sqlite", "://">>,
      migrated_tools_config |-> empty_tool_conf,
      test_data_dir |-> test_data_dir ]

DatabaseConnection ==
    << "sqlite", ":///", "$", "{", "database_location", "}",
       "?isolation_level=IMMEDIATE" >>

\* Lines 161-163.
AddsDatabaseConnectionAlways(tests) == TRUE

AddsDatabaseConnection(tests) == ~tests

WithDatabaseConnection(props) ==
    IF AddsDatabaseConnection(for_tests)
    THEN Put(props, "database_connection", DatabaseConnection)
    ELSE props

kwds_gx_properties ==
    { "job_config_file", "job_metrics_config_file",
      "dependency_resolvers_config_file", "tool_dependency_dir" }

\* Lines 344-354.
__handle_kwd_overrides(props, kw) ==
    LET set == { prop \in kwds_gx_properties : Truthy(Get(kw, prop, None)) }
    IN  [ k \in DOMAIN props \cup set |-> IF k \in set THEN kw[k] ELSE props[k] ]

\* "GALAXY_CONFIG_OVERRIDE_%s" % key.upper(), less the fixed prefix.
Upper ==
    [
      file_path |-> "FILE_PATH",
      new_file_path |-> "NEW_FILE_PATH",
      tool_config_file |-> "TOOL_CONFIG_FILE",
      check_migrate_tools |-> "CHECK_MIGRATE_TOOLS",
      manage_dependency_relationships |-> "MANAGE_DEPENDENCY_RELATIONSHIPS",
      job_working_directory |-> "JOB_WORKING_DIRECTORY",
      template_cache_path |-> "TEMPLATE_CACHE_PATH",
      citation_cache_type |-> "CITATION_CACHE_TYPE",
      citation_cache_data_dir |-> "CITATION_CACHE_DATA_DIR",
      citation_cache_lock_dir |-> "CITATION_CACHE_LOCK_DIR",
      collect_outputs_from |-> "COLLECT_OUTPUTS_FROM",
      database_auto_migrate |-> "DATABASE_AUTO_MIGRATE",
      cleanup_job |-> "CLEANUP_JOB",
      master_api_key |-> "MASTER_API_KEY",
      id_secret |-> "ID_SECRET",
      log_level |-> "LOG_LEVEL",
      debug |-> "DEBUG",
      tool_data_table_config_path |-> "TOOL_DATA_TABLE_CONFIG_PATH",
      integrated_tool_panel_config |-> "INTEGRATED_TOOL_PANEL_CONFIG",
      amqp_internal_connection |-> "AMQP_INTERNAL_CONNECTION",
      migrated_tools_config |-> "MIGRATED_TOOLS_CONFIG",
      test_data_dir |-> "TEST_DATA_DIR",
      database_connection |-> "DATABASE_CONNECTION",
      job_config_file |-> "JOB_CONFIG_FILE",
      job_metrics_config_file |-> "JOB_METRICS_CONFIG_FILE",
      dependency_resolvers_config_file |-> "DEPENDENCY_RESOLVERS_CONFIG_FILE",
      tool_dependency_dir |-> "TOOL_DEPENDENCY_DIR" ]

OverrideVar(key) == <<"GALAXY_CONFIG_OVERRIDE_", Upper[key]>>

\* Lines 281-287.
__build_env_for_galaxy(props, targs) ==
    [ var \in { OverrideVar(key) : key \in DOMAIN props } |->
        LET key == CHOOSE k \in DOMAIN props : OverrideVar(k) = var
        IN  __sub(props[key], targs) ]

test_property_variants ==
    (<<"GALAXY_TEST_MIGRATED_TOOL_CONF">> :> "migrated_tools_config")
    @@ (<<"GALAXY_TEST_SHED_TOOL_CONF">> :> "migrated_tools_config")
    @@ (<<"GALAXY_TEST_TOOL_CONF">> :> "tool_config_file")
    @@ (<<"GALAXY_TEST_FILE_DIR">> :> "test_data_dir")
    @@ (<<"GALAXY_TOOL_DEPENDENCY_DIR">> :> "tool_dependency_dir")

\* Lines 290-306: the aliases take the property as it is in the map.
__build_test_env(props, e) ==
    LET set == { test_key \in DOMAIN test_property_variants :
                   Get(props, test_property_variants[test_key], None) # None }
    IN  [ var \in DOMAIN e \cup set |->
            IF var \in set THEN props[test_property_variants[var]]
            ELSE e[var] ]

\* Lines 183-185.
KeepsDbTemplateAlways(preseeded) == TRUE

KeepsDbTemplate(preseeded) == preseeded

WithTestVariables(e) ==
    LET e1 == IF KeepsDbTemplate(preseeded_database)
              THEN Put(e, <<"GALAXY_TEST_DB_TEMPLATE">>, DATABASE_TEMPLATE_URL)
              ELSE e
    IN  Put(e1, <<"GALAXY_TEST_UPLOAD_ASYNC">>, <<"false">>)

\* Lines 122-185: nothing here touches the disk or can fail.
BuildEnvironment ==
    /\ pc = "build"
    /\ properties' = __handle_kwd_overrides(
                         WithDatabaseConnection(BaseProperties), kwds)
    /\ env' = WithTestVariables(
                  __build_test_env(
                      properties',
                      __build_env_for_galaxy(properties', template_args)))
    /\ pc' = "write_web_config"
    /\ UNCHANGED << call, kwds, layout, cwd, test_data_dir, tool_data_table,
                    galaxy_root, par_dir, probe, config_directory,
                    created_config_directory, dir_made, dir_removed, installed,
                    written, preseeded_database, yielded, handle, error,
                    subVars >>

----------------------------------------------------------------------------
(* The three files of lines 186-190, the yield and the finally clause      *)

WriteStep(at, file, content, next) ==
    /\ pc = at
    /\ Write(file, content)
    /\ pc' = next
    /\ UNCHANGED << call, kwds, layout, cwd, test_data_dir, tool_data_table,
                    galaxy_root, par_dir, probe, config_directory,
                    created_config_directory, dir_made, dir_removed, installed,
                    preseeded_database, properties, env, yielded, handle,
                    error, subVars >>

WriteStepFails(at) ==
    /\ pc = at
    /\ Raise("IOError")
    /\ UNCHANGED << call, kwds, layout, cwd, test_data_dir, tool_data_table,
                    galaxy_root, par_dir, probe, config_directory,
                    created_config_directory, dir_made, dir_removed, installed,
                    written, preseeded_database, properties, env, yielded,
                    handle, subVars >>

\* Lines 186-187.
WriteWebConfig ==
    WriteStep("write_web_config", config_join("/galaxy.ini"),
              __sub(WEB_SERVER_CONFIG_TEMPLATE, template_args),
              "write_tool_conf")

WriteWebConfigFails == WriteStepFails("write_web_config")

\* Lines 188-189.
WriteToolConf ==
    WriteStep("write_tool_conf", tool_conf,
              __sub(TOOL_CONF_TEMPLATE, template_args),
              "write_empty_tool_conf")

WriteToolConfFails == WriteStepFails("write_tool_conf")

\* Line 190.
WriteEmptyToolConf ==
    WriteStep("write_empty_tool_conf", empty_tool_conf,
              EMPTY_TOOL_CONF_TEMPLATE, "yield")

WriteEmptyToolConfFails == WriteStepFails("write_empty_tool_conf")

\* Line 192: the generator hands the handle to the with-block.
Yield ==
    /\ pc = "yield"
    /\ handle' = GalaxyConfig(galaxy_root, config_directory, env, test_data_dir)
    /\ yielded' = TRUE
    /\ pc' = "ready"
    /\ UNCHANGED << call, kwds, layout, cwd, test_data_dir, tool_data_table,
                    galaxy_root, par_dir, probe, config_directory,
                    created_config_directory, dir_made, dir_removed, installed,
                    written, preseeded_database, properties, env, error,
                    subVars >>

\* The with-block ends: contextlib resumes the generator after the yield.
CallerExits ==
    /\ pc = "ready"
    /\ pc' = "finally"
    /\ UNCHANGED << call, kwds, layout, cwd, test_data_dir, tool_data_table,
                    galaxy_root, par_dir, probe, config_directory,
                    created_config_directory, dir_made, dir_removed, installed,
                    written, preseeded_database, properties, env, yielded,
                    handle, error, subVars >>

\* The with-block raises: contextlib throws the exception in at the yield.
CallerRaises ==
    /\ pc = "ready"
    /\ Raise("CallerError")
    /\ UNCHANGED << call, kwds, layout, cwd, test_data_dir, tool_data_table,
                    galaxy_root, par_dir, probe, config_directory,
                    created_config_directory, dir_made, dir_removed, installed,
                    written, preseeded_database, properties, env, yielded,
                    handle, subVars >>

\* Lines 193-195.
RemovesAlways(created) == TRUE

Removes(created) == created

Finally ==
    /\ pc = "finally"
    /\ dir_removed' = Removes(created_config_directory)
    /\ pc' = "released"
    /\ UNCHANGED << call, kwds, layout, cwd, test_data_dir, tool_data_table,
                    galaxy_root, par_dir, probe, config_directory,
                    created_config_directory, dir_made, installed, written,
                    preseeded_database, properties, env, yielded, handle,
                    error, subVars >>

Next ==
    \/ FindTestData
    \/ FindGalaxyRoot
    \/ WalkProbe
    \/ WalkTest
    \/ MakeConfigDirectory
    \/ MakeConfigDirectoryFails
    \/ InstallGalaxyIfNeeded
    \/ InstallGalaxyFails
    \/ HandleDependencyResolutionRejects
    \/ HandleDependencyResolution
    \/ HandleDependencyResolutionFails
    \/ HandleJobMetrics
    \/ HandleJobMetricsFails
    \/ FetchDatabase
    \/ BuildEnvironment
    \/ WriteWebConfig
    \/ WriteWebConfigFails
    \/ WriteToolConf
    \/ WriteToolConfFails
    \/ WriteEmptyToolConf
    \/ WriteEmptyToolConfFails
    \/ Yield
    \/ CallerExits
    \/ CallerRaises
    \/ Finally

Spec == Init /\ [][Next]_vars

----------------------------------------------------------------------------
(* __sub on its own: every short template against every small mapping      *)

SubAlphabet == { "$", "{", "}", "a", "b" }

Templates == UNION { [1..n -> SubAlphabet] : n \in 0..MaxTplLen }

SubKeys == { <<"a">>, <<"b">> }

SubValues == { <<"b">>, <<"-">>, <<"$", "{", "b", "}">>, <<"$">> }

Mappings == UNION { [D -> SubValues] : D \in SUBSET SubKeys }

SubInit ==
    /\ template \in Templates \cup {None}
    /\ args \in Mappings
    /\ result = None
    /\ result2 = None
    /\ sub_pc = "start"
    /\ pc = "idle"
    /\ call = [k \in InputNames |-> None]
    /\ kwds = [k \in KwdNames |-> None]
    /\ layout = [tool_is_dir |-> FALSE, exists |-> {}]
    /\ cwd = None
    /\ test_data_dir = None
    /\ tool_data_table = None
    /\ galaxy_root = None
    /\ par_dir = None
    /\ probe = NoProbe
    /\ config_directory = None
    /\ created_config_directory = FALSE
    /\ dir_made = FALSE
    /\ dir_removed = FALSE
    /\ installed = FALSE
    /\ written = {}
    /\ preseeded_database = FALSE
    /\ properties = <<>>
    /\ env = <<>>
    /\ yielded = FALSE
    /\ handle = NoHandle
    /\ error = "none"

\* __sub(template, args)
SubOnce ==
    /\ sub_pc = "start"
    /\ result' = __sub(template, args)
    /\ sub_pc' = "once"
    /\ UNCHANGED << template, args, result2, sessionVars >>

\* __sub(__sub(template, args), args)
SubTwice ==
    /\ sub_pc = "once"
    /\ result2' = __sub(result, args)
    /\ sub_pc' = "twice"
    /\ UNCHANGED << template, args, result, sessionVars >>

SubNext == SubOnce \/ SubTwice

SubSpec == SubInit /\ [][SubNext]_vars

----------------------------------------------------------------------------
(* Claims                                                                  *)

Supplied(key) == Truthy(call[key])

FileWritten(file, content) == [file |-> file, content |-> content] \in written

EnvBuilt == DOMAIN properties # {}

\* C1: when the session has ended, whichever way, the config directory has
\* been removed exactly when the session made it with mkdtemp(); a directory
\* the caller supplied is never removed.
C1_RemovedIffCreated ==
    /\ pc = "released" => (dir_removed <=> dir_made)
    /\ Supplied("config_directory") => ~dir_removed /\ ~dir_made

C1_Witness ==
    /\ pc = "released"
    /\ error = "IOError"
    /\ dir_made
    /\ dir_removed

TwoStrategies ==
    Cardinality({ i \in 1..Len(resolutions_strategies) :
                    Supplied(resolutions_strategies[i]) }) > 1

\* C2, as claimed: with two resolver-strategy options set the session does
\* nothing before it fails (no directory made, no install run, no file
\* written) and the failure is the usage error.
C2_Original ==
    TwoStrategies =>
        /\ ~dir_made
        /\ ~installed
        /\ written = {}
        /\ pc = "released" => error = "UsageError"

\* C3: once the property map is built, it holds database_connection exactly
\* when for_tests is false.
C3_DatabaseConnectionIffNotForTests ==
    EnvBuilt => (("database_connection" \in DOMAIN properties) <=> ~for_tests)

C3_Witness ==
    /\ yielded
    /\ for_tests
    /\ Supplied("database_connection")
    /\ "database_connection" \notin DOMAIN properties

\* C4, as claimed: in a session that yields, each allow-listed key the caller
\* supplied holds the caller's value in the property map, and no other key
\* carries a value the caller supplied under that key.
C4_Original ==
    yielded =>
        /\ \A k \in kwds_gx_properties :
             Supplied(k) => k \in DOMAIN properties /\ properties[k] = call[k]
        /\ \A k \in KwdNames \ kwds_gx_properties :
             Supplied(k) /\ k \in DOMAIN properties => properties[k] # call[k]

PhaseRank(at) ==
    CASE at \in {"start", "find_root", "walk", "walk_test", "mkdir"} -> 1
      [] at \in {"install", "resolve"} -> 2
      [] at \in {"job_metrics", "fetch", "build", "write_web_config",
                 "write_tool_conf", "write_empty_tool_conf", "yield"} -> 3
      [] at = "ready" -> 4
      [] OTHER -> 5

\* The directory and the template arguments the handle was built with.
AllArtifactsWritten ==
    /\ FileWritten(Join(handle.config_directory, "/job_metrics_conf.xml"),
                   EMPTY_JOB_METRICS_TEMPLATE)
    /\ \A key \in DOMAIN STOCK_DEPENDENCY_RESOLUTION_STRATEGIES :
         Supplied(key) =>
             FileWritten(Join(handle.config_directory, "/resolvers_conf.xml"),
                         STOCK_DEPENDENCY_RESOLUTION_STRATEGIES[key])
    /\ \E w \in written :
         /\ w.file = Join(handle.config_directory, "/galaxy.ini")
         /\ w.content # Empty
    /\ \E w \in written :
         /\ w.file = Join(handle.config_directory, "/tool_conf.xml")
         /\ w.content # Empty
    /\ FileWritten(Join(handle.config_directory, "/empty_tool_conf.xml"),
                   EMPTY_TOOL_CONF_TEMPLATE)

\* C5: the session only moves forward through Initializing, Resolving,
\* Writing, Ready, Released; the handle is yielded only with every artifact
\* written; a failure before the yield ends in Released with the error kept,
\* the handle never yielded and the session's own directory removed; nothing
\* changes after Released.
C5_Lifecycle ==
    /\ [](yielded => AllArtifactsWritten)
    /\ [](error \notin {"none", "CallerError"} =>
            /\ ~yielded
            /\ pc \in {"finally", "released"}
            /\ pc = "released" => (dir_made => dir_removed))
    /\ [][PhaseRank(pc') >= PhaseRank(pc)]_vars
    /\ [][pc' = "ready" => pc = "yield" /\ error = "none"]_vars
    /\ [][error # "none" => error' = error]_vars
    /\ [][pc = "released" => UNCHANGED vars]_vars

C5_Witness ==
    /\ pc = "ready"
    /\ Supplied("brew_dependency_resolution")
    /\ AllArtifactsWritten

\* Every "$" of t opens a braced placeholder "${identifier}".
WellBraced(t) ==
    \A i \in 1..Len(t) :
        t[i] = Dollar =>
            /\ i + 2 <= Len(t)
            /\ t[i + 1] = LBrace
            /\ IsIdStart(t[i + 2])
            /\ IdRunEnd(t, i + 2) + 1 <= Len(t)
            /\ t[IdRunEnd(t, i + 2) + 1] = RBrace

HasDollar(t) == \E i \in 1..Len(t) : t[i] = Dollar

NoDollarValues(m) == \A k \in DOMAIN m : ~HasDollar(m[k])

HasEscape(t) == \E i \in 1..Len(t) - 1 : t[i] = Dollar /\ t[i + 1] = Dollar

\* C6, as claimed: substituting twice with the same mapping gives what
\* substituting once gives, for every template and mapping.
C6_Original == sub_pc = "twice" => result2 = result

\* C6, amended: __sub gives '' for None; with no key mapped and no escaped
\* dollar the template comes back verbatim; and a second substitution changes
\* nothing when every "$" of the template opens a braced placeholder and no
\* mapped value holds a "$".
C6_SubstitutionSafe ==
    /\ sub_pc # "start" /\ template = None => result = Empty
    /\ sub_pc # "start" /\ template # None /\ DOMAIN args = {}
           /\ ~HasEscape(template)
       => result = template
    /\ sub_pc = "twice" /\ template # None /\ WellBraced(template)
           /\ NoDollarValues(args)
       => result2 = result

C6_Witness ==
    /\ sub_pc = "twice"
    /\ template = <<"$", "{", "a", "}">>
    /\ DOMAIN args = {<<"b">>}
    /\ NoDollarValues(args)
    /\ result2 = template

Depth(path) == IF path = <<"/">> THEN 0 ELSE Len(path)

IsMatch(p) == p.run /\ p.config

\* C7: without install_galaxy the root is the galaxy_root option, else the
\* global default, else the result of a walk that starts at the working
\* directory, returns a directory only when it holds run.sh and config, moves
\* one directory up only past a directory that does not, and fails only at
\* "/" after testing it, with no config directory made.  With install_galaxy
\* the walk never runs and the yielded root is
\* <config_directory>/galaxy-central-master.
C7_RootResolution ==
    /\ [](/\ pc \notin {"start", "find_root"} /\ ~Supplied("install_galaxy")
             /\ Supplied("galaxy_root")
          => galaxy_root = call["galaxy_root"])
    /\ [](/\ pc \notin {"start", "find_root"} /\ ~Supplied("install_galaxy")
             /\ ~Supplied("galaxy_root") /\ Supplied("global_galaxy_root")
          => galaxy_root = call["global_galaxy_root"])
    /\ [](/\ Supplied("install_galaxy") \/ Supplied("galaxy_root")
                \/ Supplied("global_galaxy_root")
          => pc \notin {"walk", "walk_test"}
                /\ error # FAILED_TO_FIND_GALAXY_EXCEPTION)
    /\ [](error = FAILED_TO_FIND_GALAXY_EXCEPTION =>
            pc = "released" /\ ~dir_made /\ config_directory = None
                /\ written = {})
    /\ [](yielded /\ Supplied("install_galaxy") =>
            handle.galaxy_root
                = handle.config_directory \o <<"/galaxy-central-master">>)
    /\ [][pc = "find_root" /\ pc' = "walk" => par_dir' = cwd' /\ cwd' # None]_vars
    /\ [][pc = "walk_test" /\ pc' = "mkdir" =>
            galaxy_root' = par_dir /\ probe.dir = par_dir /\ IsMatch(probe)]_vars
    /\ [][pc = "walk_test" /\ pc' = "walk" =>
            /\ probe.dir = par_dir
            /\ ~IsMatch(probe)
            /\ Depth(par_dir') = Depth(par_dir) - 1
            /\ \A i \in 1..Depth(par_dir') : par_dir'[i] = par_dir[i]]_vars
    /\ [][pc = "walk_test" /\ pc' = "released" =>
            /\ par_dir = <<"/">>
            /\ probe.dir = par_dir
            /\ ~IsMatch(probe)
            /\ error' = FAILED_TO_FIND_GALAXY_EXCEPTION]_vars

C7_Witness ==
    /\ pc = "ready"
    /\ ~Supplied("install_galaxy")
    /\ ~Supplied("galaxy_root")
    /\ ~Supplied("global_galaxy_root")
    /\ Depth(cwd) = MaxDepth
    /\ handle.galaxy_root = <<"/">>

StockSupplied ==
    { key \in DOMAIN STOCK_DEPENDENCY_RESOLUTION_STRATEGIES : Supplied(key) }

ResolversFile == Join(handle.config_directory, "/resolvers_conf.xml")

\* C8, as claimed: in a session that yields with exactly one stock strategy
\* option set, resolvers_conf.xml holds that strategy's document, the
\* environment names that file's path and sets the tool dependency directory;
\* with no strategy option set no resolvers file is written; and no session
\* writes two strategies' documents.
C8_Original ==
    /\ yielded /\ Cardinality(StockSupplied) = 1 =>
         /\ \A key \in StockSupplied :
              FileWritten(ResolversFile,
                          STOCK_DEPENDENCY_RESOLUTION_STRATEGIES[key])
         /\ OverrideVar("dependency_resolvers_config_file") \in DOMAIN env
         /\ env[OverrideVar("dependency_resolvers_config_file")] = ResolversFile
         /\ OverrideVar("tool_dependency_dir") \in DOMAIN env
    /\ yielded /\ StockSupplied = {}
           /\ ~Supplied("dependency_resolvers_config_file") =>
         \A w \in written : w.file # ResolversFile
    /\ ~(\E v, w \in written :
           /\ v.content = BREW_DEPENDENCY_RESOLUTION_CONF
           /\ w.content = SHED_BREW_DEPENDENCY_RESOLUTION_CONF)

\* C9, as claimed: in a session that yields, each legacy variable is in the
\* environment exactly when its property is set, and then carries the value
\* of that property's GALAXY_CONFIG_OVERRIDE variable; with no test data
\* directory the handle has None, GALAXY_TEST_FILE_DIR is absent and the
\* override variable is absent or empty.
C9_Original ==
    yielded =>
        /\ \A var \in DOMAIN test_property_variants :
             LET key == test_property_variants[var]
             IN  /\ var \in DOMAIN env
                     <=> (key \in DOMAIN properties /\ properties[key] # None)
                 /\ var \in DOMAIN env => env[var] = env[OverrideVar(key)]
        /\ test_data_dir = None =>
             /\ handle.test_data_dir = None
             /\ <<"GALAXY_TEST_FILE_DIR">> \notin DOMAIN env
             /\ \/ OverrideVar("test_data_dir") \notin DOMAIN env
                \/ env[OverrideVar("test_data_dir")] = Empty

Fetched ==
    FileWritten(Join(config_directory, "/galaxy.sqlite"), DATABASE_TEMPLATE_URL)

\* C10: the step that fetches the database snapshot always goes on to build
\* the environment and never sets an error; the yielded environment holds
\* GALAXY_TEST_DB_TEMPLATE exactly when the snapshot was fetched, and always
\* holds GALAXY_TEST_UPLOAD_ASYNC = "false".
C10_FetchIsBestEffort ==
    /\ [][pc = "fetch" => pc' = "build" /\ error' = "none"]_vars
    /\ [](yielded =>
            /\ <<"GALAXY_TEST_DB_TEMPLATE">> \in DOMAIN handle.env <=> Fetched
            /\ <<"GALAXY_TEST_UPLOAD_ASYNC">> \in DOMAIN handle.env
            /\ handle.env[<<"GALAXY_TEST_UPLOAD_ASYNC">>] = <<"false">>)

C10_Witness ==
    /\ pc = "ready"
    /\ ~Fetched
    /\ error = "none"
    /\ <<"GALAXY_TEST_DB_TEMPLATE">> \notin DOMAIN handle.env

====
